---- MODULE Spec2Model ----
(***************************************************************************)
(* Model of the Local Capture Store (DatabaseManager), the Sync Engine     *)
(* (syncHomeTimelineToObsidian) and the Sync Scheduler (SyncManager).      *)
(*                                                                         *)
(* SpecSync  : the Sync Engine called directly, one run after the other,   *)
(*             against the capture store and the remote vault.             *)
(* SpecSched : the Sync Scheduler; every tick that passes its guards runs  *)
(*             the same Sync Engine steps.                                 *)
(***************************************************************************)
EXTENDS Integers, Sequences, FiniteSets, TLC

VARIABLES
    tweetsTbl,          \* Dexie table "tweets": rest_id -> stored payload shape
    usersTbl,           \* Dexie table "users": rest_id -> stored payload shape
    captures,           \* Dexie table "captures": set of Capture rows
    adding,             \* the extAddTweets / extAddUsers call in progress (or none)
    adds,               \* number of extAddTweets / extAddUsers calls made (bounded)
    clearing,           \* the extClearCaptures call in progress (or none)
    clears,             \* number of extClearCaptures calls made (bounded)
    dbErrors,           \* number of logError calls (logged database errors)
    now,                \* Date.now()
    vault,              \* remote vault: bucket key -> file (exists, text)
    run,                \* per caller: the locals of one syncHomeTimelineToObsidian call
    prev,               \* history: tweets and summary of the last returned direct run
    runs,               \* number of direct calls made (bounded)
    started,            \* SyncManager.start() was called
    autoSync,           \* options.homeTimelineAutoSyncEnabled
    homeEnabled,        \* HomeTimelineModule.enabled
    hasToken,           \* OBSIDIAN_API_TOKEN is non-empty (build-time)
    intervalMinutes,    \* options.homeTimelineAutoSyncIntervalMinutes (Null when unset)
    visible,            \* document.visibilityState === 'visible'
    online,             \* navigator.onLine
    lastSyncAt,         \* options.homeTimelineLastSyncAt (Null when unset)
    timerId,            \* SyncManager.timerId (Null or an interval handle)
    timers,             \* interval handles armed in the window
    timerMs,            \* the delay of the interval timer of timerId (0: none)
    inFlight,           \* SyncManager.inFlight
    tokenWarningLogged, \* SyncManager.tokenWarningLogged
    tokenWarnings,      \* number of 'token not configured' warnings logged
    signal,             \* SyncManager.signal.value
    tick,               \* per tick() invocation: position and locals
    nextTick,           \* next unused tick() invocation
    evals               \* history: parity of reschedule() calls, and their last verdict

storeVars == <<tweetsTbl, usersTbl, captures, adding, adds, clearing, clears, dbErrors, now>>
syncVars  == <<vault, run, prev, runs>>
cfgVars   == <<started, autoSync, homeEnabled, hasToken, intervalMinutes, visible, online>>
schedVars == <<lastSyncAt, timerId, timers, timerMs, inFlight, tokenWarningLogged,
               tokenWarnings, signal, tick, nextTick, evals>>
vars == <<storeVars, syncVars, cfgVars, schedVars>>

(***************************************************************************)
(* Bounds                                                                  *)
(***************************************************************************)
MaxTweet == 3       \* rest_ids 1..MaxTweet
MaxTime  == 1       \* Date.now() ranges over 0..MaxTime
MaxTicks == 3       \* tick() invocations per behaviour
MaxRuns  == 2       \* direct calls of the Sync Engine per behaviour
MaxAdds  == 2       \* extAddTweets calls per behaviour
MaxClears == 1      \* extClearCaptures calls per behaviour
MaxKey   == 3       \* sort keys 1..MaxKey (0: no sort key)
LowMinutes  == 6    \* interval options 0..LowMinutes are tried,
HighMinutes == 500  \* and HighMinutes, and the values around the maximum

Null == -1          \* null / undefined

MIN_INTERVAL_MINUTES == 5
MAX_INTERVAL_MINUTES == 180
DEFAULT_INTERVAL_MINUTES == 15      \* options.get(..., 15) ?? 15
Direct == 0         \* the caller id of a direct (non-scheduler) engine call

TweetIds == 1..MaxTweet
Ticks    == 1..MaxTicks
Callers  == {Direct} \cup Ticks
HomeTimelineModule == "HomeTimelineModule"

\* Tokens of a vault file's text.  A serialized document is one token, its id
\* (JSON.stringify never emits a raw newline); the others are below.
NL    == 0          \* '\n'
SP    == -2         \* whitespace other than '\n'
JUNK  == -3         \* text that is not JSON
NOID  == -4         \* a JSON value without an id

\* formatDateTime(parseTwitterDateTime(tweet.legacy.created_at), 'YYYY-MM-DD'):
\* the creation date is part of the tweet; tweets 1,2 share a day, 3,4 the next.
DateKey(id) == (id + 1) \div 2
BucketIds == {DateKey(i) : i \in TweetIds}

(***************************************************************************)
(* Local Capture Store                                                     *)
(***************************************************************************)
\* compareSortIndex (utils/api): ascending comparison of two sort keys; a key
\* comes before a missing one (0), two missing ones compare equal.
compareSortIndex(a, b) ==
    IF a # 0 /\ b # 0 THEN a - b
    ELSE IF a # 0 THEN -1
    ELSE IF b # 0 THEN 1
    ELSE 0

CaptureCmpByTime(a, b) == b.created_at - a.created_at

\* The comparator of sortCaptures; sort_index 0 stands for a missing sort key.
CaptureCmp(a, b) ==
    IF a.sort_index # 0 /\ b.sort_index # 0
    THEN compareSortIndex(a.sort_index, b.sort_index)
    ELSE IF a.sort_index # 0 THEN -1
    ELSE IF b.sort_index # 0 THEN 1
    ELSE b.created_at - a.created_at

\* a comes before b in the sorted result.  Array.prototype.sort is stable and
\* toArray() yields the rows in primary-key order, so ties keep key order.
CaptureBefore(a, b) ==
    \/ CaptureCmp(a, b) < 0
    \/ CaptureCmp(a, b) = 0 /\ a.data_key < b.data_key

RECURSIVE SortSet(_)
SortSet(S) ==
    IF S = {} THEN <<>>
    ELSE LET m == CHOOSE x \in S : \A y \in S \ {x} : CaptureBefore(x, y)
         IN  <<m>> \o SortSet(S \ {m})

sortCaptures(S) == SortSet(S)

extGetCaptures(extName) == {c \in captures : c.extension = extName}

extGetCapturesSince(extName, since) ==
    {c \in captures : c.extension = extName /\ c.created_at > since}

filterEmptyDataKeepsAll(id) == TRUE

\* filterEmptyData: a stored payload without `legacy` is dropped.
filterEmptyData(id) == tweetsTbl[id] \notin {"none", "empty"}

\* The tweets of a source in capture order; missing and empty ones are dropped.
extGetCapturedTweets(extName) ==
    LET sorted   == sortCaptures(extGetCaptures(extName))
        tweetIds == [i \in 1..Len(sorted) |-> sorted[i].data_key]
    IN  SelectSeq(tweetIds, filterEmptyData)

(***************************************************************************)
(* Sync Engine: pure parts                                                 *)
(***************************************************************************)
isOkStatus(status) == status >= 200 /\ status < 300

\* toObsidianTweet reads tweet.core.user_results.result.core: a payload
\* without `core` makes it throw a TypeError.
ProjectionThrows(tweets) == \E i \in 1..Len(tweets) : tweetsTbl[tweets[i]] = "nocore"

\* content.split('\n')
RECURSIVE SplitLines(_)
SplitLines(content) ==
    IF \A i \in 1..Len(content) : content[i] # NL THEN <<content>>
    ELSE LET k == CHOOSE i \in 1..Len(content) :
                      content[i] = NL /\ \A j \in 1..(i - 1) : content[j] # NL
         IN  <<SubSeq(content, 1, k - 1)>> \o SplitLines(SubSeq(content, k + 1, Len(content)))

\* line.trim()
RECURSIVE Trim(_)
Trim(line) ==
    IF line = <<>> THEN <<>>
    ELSE IF Head(line) = SP THEN Trim(Tail(line))
    ELSE IF line[Len(line)] = SP THEN Trim(SubSeq(line, 1, Len(line) - 1))
    ELSE line

LineIdsUntrimmed(line) ==
    IF Len(line) = 1 /\ line[1] > 0 THEN {line[1]} ELSE {}

\* JSON.parse(trimmed) and the id test: the set of ids one line contributes.
\* Only a line holding exactly one JSON value parses.
LineIds(line) ==
    LET trimmed == Trim(line)
    IN  IF Len(trimmed) = 1 /\ trimmed[1] > 0 THEN {trimmed[1]} ELSE {}

extractExistingIdsNone(content) == {}

extractExistingIds(content) ==
    LET lines == SplitLines(content)
    IN  UNION {LineIds(lines[i]) : i \in 1..Len(lines)}

\* newItems.map(JSON.stringify).join('\n') + '\n'
RECURSIVE NewLines(_)
NewLines(newItems) ==
    IF newItems = <<>> THEN <<>>
    ELSE <<Head(newItems), NL>> \o NewLines(Tail(newItems))

CombinedNoSeparator(existingContent, newItems) == existingContent \o NewLines(newItems)

\* `${existingContent}${existingContent && !existingContent.endsWith('\n') ? '\n' : ''}${newLines}`
Combined(existingContent, newItems) ==
    existingContent
        \o (IF existingContent # <<>> /\ existingContent[Len(existingContent)] # NL
            THEN <<NL>> ELSE <<>>)
        \o NewLines(newItems)

\* The keys of the `buckets` Map in insertion order.
BucketKeys(tweets) ==
    LET F[i \in 0..Len(tweets)] ==
            IF i = 0 THEN <<>>
            ELSE IF \E j \in 1..Len(F[i - 1]) : F[i - 1][j] = DateKey(tweets[i])
                 THEN F[i - 1]
                 ELSE Append(F[i - 1], DateKey(tweets[i]))
    IN  F[Len(tweets)]

\* buckets.get(dateKey): the projected documents of a bucket, by id.
InBucket(tweets, b) ==
    LET Same(id) == DateKey(id) = b
    IN  SelectSeq(tweets, Same)

(***************************************************************************)
(* Writes of the capture producers: extAddTweets                           *)
(***************************************************************************)
OtherModule == "BookmarksModule"
Exts == {HomeTimelineModule, OtherModule}
Shapes == {"ok", "nocore", "empty"}     \* full payload / no `core` / no `legacy`

\* The comparator of sortItems, on the items' sortIndex (0: missing).
ItemCmp(a, b) == compareSortIndex(a.sortIndex, b.sortIndex)

\* Stable insertion of x into the sorted sequence s.
InsertItem(s, x) ==
    LET later == {i \in 1..Len(s) : ItemCmp(s[i], x) > 0}
        k == IF later = {} THEN Len(s) + 1
             ELSE CHOOSE i \in later : \A j \in later : i <= j
    IN  SubSeq(s, 1, k - 1) \o <<x>> \o SubSeq(s, k, Len(s))

RECURSIVE sortItems(_)
sortItems(items) ==
    IF items = <<>> THEN <<>>
    ELSE InsertItem(sortItems(SubSeq(items, 1, Len(items) - 1)), items[Len(items)])

NoAdding == [pc |-> "none", type |-> "", extension |-> "", given |-> <<>>,
             items |-> <<>>, rows |-> <<>>]

\* Table.bulkPut on "tweets": every payload of the batch is stored under its
\* rest_id, a later one of the same id replacing an earlier one.
PutTweets(tbl, items) ==
    [id \in TweetIds |->
        LET at == {i \in 1..Len(items) : items[i].id = id}
        IN  IF at = {} THEN tbl[id]
            ELSE items[CHOOSE i \in at : \A j \in at : j <= i].shape]

\* Table.bulkPut on "users".
PutUsers(tbl, items) == PutTweets(tbl, items)

\* The Capture rows extAddTweets / extAddUsers build from the sorted batch.
CaptureRows(extName, type, sorted, t) ==
    [i \in 1..Len(sorted) |->
        [extension  |-> extName,
         type       |-> type,
         data_key   |-> sorted[i].id,
         created_at |-> t + (i - 1),
         sort_index |-> sorted[i].sortIndex]]

PutCapturesAppend(tbl, rows) == tbl \cup {rows[i] : i \in 1..Len(rows)}

\* Table.bulkPut on "captures": rows are keyed by id = extension-data_key.
PutCaptures(tbl, rows) ==
    LET Key(c) == <<c.extension, c.data_key>>
        kept == {c \in tbl : \A i \in 1..Len(rows) : Key(rows[i]) # Key(c)}
        last == {rows[i] : i \in {k \in 1..Len(rows) :
                     \A j \in (k + 1)..Len(rows) : Key(rows[j]) # Key(rows[k])}}
    IN  kept \cup last

\* bulkPut whose promise is caught inside the transaction scope: the rows
\* at the positions in `bad` fail, the transaction commits the others.
PutCapturesExcept(tbl, rows, bad) ==
    LET Good(i) == i \notin bad
        goodAt  == SelectSeq([i \in 1..Len(rows) |-> i], Good)
    IN  PutCaptures(tbl, [k \in 1..Len(goodAt) |-> rows[goodAt[k]]])

\* extAddTweets up to its first await: the batch is sorted and the tweets
\* transaction is requested.
ExtAddTweets(extName, items) ==
    /\ adding.pc = "none"
    /\ adds < MaxAdds
    /\ adds' = adds + 1
    /\ adding' = [pc |-> "tweets", type |-> "tweet", extension |-> extName,
                  given |-> items, items |-> sortItems(items), rows |-> <<>>]
    /\ UNCHANGED <<tweetsTbl, usersTbl, captures, clearing, clears, dbErrors, now,
                   syncVars, cfgVars, schedVars>>

\* extAddUsers up to its first await.
ExtAddUsers(extName, items) ==
    /\ adding.pc = "none"
    /\ adds < MaxAdds
    /\ adds' = adds + 1
    /\ adding' = [pc |-> "users", type |-> "user", extension |-> extName,
                  given |-> items, items |-> sortItems(items), rows |-> <<>>]
    /\ UNCHANGED <<tweetsTbl, usersTbl, captures, clearing, clears, dbErrors, now,
                   syncVars, cfgVars, schedVars>>

\* The tweets transaction ends (committed, or aborted and logged); the Capture
\* rows are built with the current time and the captures transaction is requested.
UpsertTweetsDone(ok) ==
    /\ adding.pc = "tweets"
    /\ tweetsTbl' = IF ok THEN PutTweets(tweetsTbl, adding.items) ELSE tweetsTbl
    /\ dbErrors' = IF ok THEN dbErrors ELSE dbErrors + 1
    /\ adding' = [adding EXCEPT !.pc = "captures",
                                !.rows = CaptureRows(adding.extension, adding.type,
                                                     adding.items, now)]
    /\ UNCHANGED <<usersTbl, captures, adds, clearing, clears, now,
                   syncVars, cfgVars, schedVars>>

\* The users transaction ends (committed, or aborted and logged).
UpsertUsersDone(ok) ==
    /\ adding.pc = "users"
    /\ usersTbl' = IF ok THEN PutUsers(usersTbl, adding.items) ELSE usersTbl
    /\ dbErrors' = IF ok THEN dbErrors ELSE dbErrors + 1
    /\ adding' = [adding EXCEPT !.pc = "captures",
                                !.rows = CaptureRows(adding.extension, adding.type,
                                                     adding.items, now)]
    /\ UNCHANGED <<tweetsTbl, captures, adds, clearing, clears, now,
                   syncVars, cfgVars, schedVars>>

\* The captures transaction ends.  ok: it commits, without the rows at the
\* positions in `bad`, whose failure bulkPut's own catch logs; ~ok: it aborts
\* and the outer catch logs.
UpsertCapturesDone(ok, bad) ==
    /\ adding.pc = "captures"
    /\ bad \subseteq 1..Len(adding.rows)
    /\ captures' = IF ok THEN PutCapturesExcept(captures, adding.rows, bad) ELSE captures
    /\ dbErrors' = IF ok /\ bad = {} THEN dbErrors ELSE dbErrors + 1
    /\ adding' = NoAdding
    /\ UNCHANGED <<tweetsTbl, usersTbl, adds, clearing, clears, now,
                   syncVars, cfgVars, schedVars>>

NoClearing == [pc |-> "none", extension |-> "", ids |-> {}]

\* Capture.id: `${extName}-${rest_id}`
CaptureId(c) == <<c.extension, c.data_key>>

\* extClearCaptures up to its await of extGetCaptures.
ExtClearCaptures(extName) ==
    /\ clearing.pc \in {"none", "done"}
    /\ clears < MaxClears
    /\ clears' = clears + 1
    /\ clearing' = [pc |-> "read", extension |-> extName, ids |-> {}]
    /\ UNCHANGED <<tweetsTbl, usersTbl, captures, adding, adds, dbErrors, now,
                   syncVars, cfgVars, schedVars>>

\* extGetCaptures answers; the ids of the rows read are handed to bulkDelete.
ClearRead ==
    /\ clearing.pc = "read"
    /\ clearing' = [clearing EXCEPT !.pc = "delete",
                       !.ids = {CaptureId(c) : c \in extGetCaptures(clearing.extension)}]
    /\ UNCHANGED <<tweetsTbl, usersTbl, captures, adding, adds, clears, dbErrors, now,
                   syncVars, cfgVars, schedVars>>

bulkDeleteKeepsRows(tbl, ids) == tbl

\* Table.bulkDelete on "captures".
bulkDelete(tbl, ids) == {c \in tbl : CaptureId(c) \notin ids}

\* bulkDelete ends: the rows with the ids read are deleted.
ClearDelete ==
    /\ clearing.pc = "delete"
    /\ captures' = bulkDelete(captures, clearing.ids)
    /\ clearing' = [clearing EXCEPT !.pc = "done"]
    /\ UNCHANGED <<tweetsTbl, usersTbl, adding, adds, clears, dbErrors, now,
                   syncVars, cfgVars, schedVars>>

\* Date.now() advances.
AdvanceTime ==
    /\ now < MaxTime
    /\ now' = now + 1
    /\ UNCHANGED <<tweetsTbl, usersTbl, captures, adding, adds, clearing, clears,
                   dbErrors, syncVars, cfgVars, schedVars>>

(***************************************************************************)
(* Remote vault                                                            *)
(***************************************************************************)
NoFile == [exists |-> FALSE, text |-> <<>>]
NoResp == [kind |-> "none", status |-> 0, text |-> <<>>]
Rejected == [kind |-> "error", status |-> 0, text |-> <<>>]     \* onerror, or assertToken threw

\* What a GET of a file can answer: the file (200), not found (404, with any
\* body), a server error, or a failed request.
GetResponses(file) ==
    (IF file.exists
     THEN {[kind |-> "load", status |-> 200, text |-> file.text]}
     ELSE {[kind |-> "load", status |-> 404, text |-> t] : t \in {<<>>, <<JUNK>>}})
    \cup {[kind |-> "load", status |-> 500, text |-> <<JUNK>>], Rejected}

\* What a PUT can answer: stored (204), a server error, or a failed request.
PutResponses ==
    {[kind |-> "load", status |-> 204, text |-> <<>>],
     [kind |-> "load", status |-> 500, text |-> <<JUNK>>], Rejected}

(***************************************************************************)
(* Sync Engine: syncHomeTimelineToObsidian                                 *)
(***************************************************************************)
ZeroSummary == [total |-> 0, synced |-> 0, skipped |-> 0, files |-> 0, errors |-> <<>>]

IdleRun == [pc |-> "idle", tweets |-> <<>>, idx |-> 0, existingContent |-> <<>>,
            newItems |-> <<>>, body |-> <<>>, summary |-> ZeroSummary,
            resp |-> NoResp, asked |-> {}]

\* (error as Error).message
ErrorMessage(method, b, resp) ==
    IF resp.kind = "error" THEN <<"Obsidian request failed">>
    ELSE <<method, b, resp.status>>

PushError(rec, msg) ==
    [rec EXCEPT !.summary.errors = Append(rec.summary.errors, msg)]

\* The end of one iteration of `for (const [dateKey, items] of buckets)`:
\* the next bucket's GET is sent, or the summary is returned.
NextBucket(rec) ==
    LET keys == BucketKeys(rec.tweets)
        done == [rec EXCEPT !.existingContent = <<>>, !.newItems = <<>>, !.body = <<>>]
    IN  IF rec.idx >= Len(keys) THEN [done EXCEPT !.pc = "returned"]
        ELSE [done EXCEPT !.pc = "get", !.idx = rec.idx + 1,
                          !.asked = rec.asked \cup {keys[rec.idx + 1]}]

\* The engine after `await db.extGetCapturedTweets(...)`: summary.total, the
\* early return, the projection into buckets, and the first bucket's GET.
AfterRead(rec, tweets) ==
    LET withTotal == [rec EXCEPT !.tweets = tweets, !.summary.total = Len(tweets)]
    IN  IF tweets = <<>> THEN [withTotal EXCEPT !.pc = "returned"]
        ELSE IF ProjectionThrows(tweets) THEN [withTotal EXCEPT !.pc = "threw"]
        ELSE NextBucket(withTotal)

\* The GET of a bucket ends in the catch block: the request was rejected, or
\* its status is neither 404 nor a success.
GetFailed(resp) ==
    resp.kind = "error" \/ (resp.status # 404 /\ ~isOkStatus(resp.status))

ExistingContentOfAnyStatus(resp) == resp.text

\* existingContent after a GET that did not fail.
ExistingContent(resp) == IF resp.status = 404 THEN <<>> ELSE resp.text

PutSucceededAlways(resp) == TRUE

\* The PUT of a bucket did not end in the catch block.
PutSucceeded(resp) == resp.kind = "load" /\ isOkStatus(resp.status)

AfterGetAlwaysWrites(rec, resp) ==
    LET b     == BucketKeys(rec.tweets)[rec.idx]
        items == InBucket(rec.tweets, b)
        seen  == [rec EXCEPT !.resp = resp]
    IN  IF GetFailed(resp)
        THEN NextBucket(PushError(seen, ErrorMessage("GET", b, resp)))
        ELSE LET existingContent == ExistingContent(resp)
                 existingIds == extractExistingIds(existingContent)
                 IsNew(id)   == id \notin existingIds
                 newItems    == SelectSeq(items, IsNew)
             IN  [seen EXCEPT !.summary.skipped = @ + (Len(items) - Len(newItems)),
                              !.existingContent = existingContent,
                              !.newItems = newItems,
                              !.pc = "put",
                              !.body = Combined(existingContent, newItems)]

\* The engine after `await getVaultFile(path)` of the current bucket.
AfterGet(rec, resp) ==
    LET b     == BucketKeys(rec.tweets)[rec.idx]
        items == InBucket(rec.tweets, b)
        seen  == [rec EXCEPT !.resp = resp]
    IN  IF GetFailed(resp)
        THEN NextBucket(PushError(seen, ErrorMessage("GET", b, resp)))
        ELSE LET existingContent == ExistingContent(resp)
                 existingIds == extractExistingIds(existingContent)
                 IsNew(id)   == id \notin existingIds
                 newItems    == SelectSeq(items, IsNew)
                 counted     == [seen EXCEPT
                                   !.summary.skipped = @ + (Len(items) - Len(newItems)),
                                   !.existingContent = existingContent,
                                   !.newItems = newItems]
             IN  IF newItems = <<>> THEN NextBucket(counted)
                 ELSE [counted EXCEPT !.pc = "put",
                                      !.body = Combined(existingContent, newItems)]

AfterPutCountsAlways(rec, resp) ==
    NextBucket([rec EXCEPT !.resp = resp,
                           !.summary.synced = @ + Len(rec.newItems),
                           !.summary.files = @ + 1])

\* The engine after `await putVaultFile(path, combined)` of the current bucket.
AfterPut(rec, resp) ==
    LET b    == BucketKeys(rec.tweets)[rec.idx]
        seen == [rec EXCEPT !.resp = resp]
    IN  IF PutSucceeded(resp)
        THEN NextBucket([seen EXCEPT !.summary.synced = @ + Len(rec.newItems),
                                     !.summary.files = @ + 1])
        ELSE NextBucket(PushError(seen, ErrorMessage("PUT", b, resp)))

(***************************************************************************)
(* Sync Scheduler: SyncManager                                             *)
(***************************************************************************)
FreshTick == [pc |-> "fresh", since |-> Null, busy |-> FALSE, why |-> ""]

\* tick(), from `this.inFlight = true` to the engine's first await.
TickBegin(t, me) ==
    /\ inFlight' = TRUE
    /\ signal' = signal + 1
    /\ tick' = [tick EXCEPT ![t] = [me EXCEPT !.pc = "running"]]
    /\ run' = [run EXCEPT ![t] = [IdleRun EXCEPT !.pc = "read"]]

TickSkipTouchesSignal(t, me, why) ==
    /\ tick' = [tick EXCEPT ![t] = [me EXCEPT !.pc = "skipped", !.why = why]]
    /\ signal' = signal + 1
    /\ UNCHANGED <<inFlight, run>>

\* One of tick()'s early returns; `why` is the reason it logs.
TickSkip(t, me, why) ==
    /\ tick' = [tick EXCEPT ![t] = [me EXCEPT !.pc = "skipped", !.why = why]]
    /\ UNCHANGED <<inFlight, signal, run>>

TickEnterWithoutFlightCheck(t) ==
    LET me == [tick[t] EXCEPT !.busy = inFlight, !.since = lastSyncAt]
    IN  IF ~visible THEN TickSkip(t, me, "page not visible")
        ELSE IF ~online THEN TickSkip(t, me, "browser offline")
        ELSE IF lastSyncAt # Null
             THEN /\ tick' = [tick EXCEPT ![t] = [me EXCEPT !.pc = "guard"]]
                  /\ UNCHANGED <<inFlight, signal, run>>
             ELSE TickBegin(t, me)

\* tick() up to its first suspension point: the three synchronous guards,
\* then the await of extGetCapturesSince when a last-sync offset is recorded.
\* `busy` remembers the in-flight flag the tick found, `since` is its lastSyncAt.
TickEnter(t) ==
    LET me == [tick[t] EXCEPT !.busy = inFlight, !.since = lastSyncAt]
    IN  IF inFlight THEN TickSkip(t, me, "sync already in flight")
        ELSE IF ~visible THEN TickSkip(t, me, "page not visible")
        ELSE IF ~online THEN TickSkip(t, me, "browser offline")
        ELSE IF lastSyncAt # Null
             THEN /\ tick' = [tick EXCEPT ![t] = [me EXCEPT !.pc = "guard"]]
                  /\ UNCHANGED <<inFlight, signal, run>>
             ELSE TickBegin(t, me)

\* tick() resumed with the result of extGetCapturesSince.
TickResume(t) ==
    /\ tick[t].pc = "guard"
    /\ IF extGetCapturesSince(HomeTimelineModule, tick[t].since) = {}
       THEN TickSkip(t, tick[t], "no new captures since last sync")
       ELSE TickBegin(t, tick[t])
    /\ UNCHANGED <<storeVars, vault, prev, runs, cfgVars,
                   lastSyncAt, timerId, timers, timerMs, tokenWarningLogged,
                   tokenWarnings, nextTick, evals>>

TickSettleAlwaysAdvances(t, rec) ==
    /\ lastSyncAt' = now
    /\ inFlight' = FALSE
    /\ signal' = signal + 1
    /\ tick' = [tick EXCEPT ![t].pc = "done"]
    /\ UNCHANGED <<timerId, timers, timerMs, tokenWarningLogged, tokenWarnings,
                   nextTick, evals>>

TickSettleWithoutFinally(t, rec) ==
    /\ lastSyncAt' = IF rec.pc = "returned" THEN now ELSE lastSyncAt
    /\ inFlight' = (rec.pc # "returned")
    /\ signal' = signal + 1
    /\ tick' = [tick EXCEPT ![t].pc = "done"]
    /\ UNCHANGED <<timerId, timers, timerMs, tokenWarningLogged, tokenWarnings,
                   nextTick, evals>>

\* tick() resumed by the engine's result: the try block's tail, catch, finally.
TickSettle(t, rec) ==
    /\ lastSyncAt' = IF rec.pc = "returned" THEN now ELSE lastSyncAt
    /\ inFlight' = FALSE
    /\ signal' = signal + 1
    /\ tick' = [tick EXCEPT ![t].pc = "done"]
    /\ UNCHANGED <<timerId, timers, timerMs, tokenWarningLogged, tokenWarnings,
                   nextTick, evals>>

shouldRunIgnoresModule(a, h) == a /\ hasToken

\* shouldRun() on the configuration (a: auto-sync enabled, h: module enabled).
shouldRun(a, h) == a /\ hasToken /\ h

warnsTokenEveryTime(a) == a /\ ~hasToken

\* shouldRun() logs the 'token not configured' warning: auto-sync is enabled,
\* the token is empty and the warning was not logged before.
warnsToken(a) == a /\ ~hasToken /\ ~tokenWarningLogged

Max(a, b) == IF a >= b THEN a ELSE b     \* Math.max
Min(a, b) == IF a <= b THEN a ELSE b     \* Math.min

getIntervalMsUnclamped(m) ==
    (IF m = Null THEN DEFAULT_INTERVAL_MINUTES ELSE m) * 60 * 1000

\* getIntervalMs() on the configured interval m (Null: unset).
getIntervalMs(m) ==
    LET minutes == IF m = Null THEN DEFAULT_INTERVAL_MINUTES ELSE m
        clamped == Max(MIN_INTERVAL_MINUTES, Min(MAX_INTERVAL_MINUTES, minutes))
    IN  clamped * 60 * 1000

clearTimerKeepsTimer(armed, id) == armed

\* clearTimer(): window.clearInterval(this.timerId) on the armed handles.
clearTimer(armed, id) == armed \ {id}

\* window.setInterval returns a handle that is not in use.
NewHandle(armed) == CHOOSE h \in 1..(Cardinality(armed) + 1) : h \notin armed

\* reschedule() on the configuration (a, h, m: the interval option).
reschedule(a, h, m) ==
    LET cleared == clearTimer(timers, timerId)
        id == NewHandle(cleared)
    IN  /\ tokenWarningLogged' = (tokenWarningLogged \/ (a /\ ~hasToken))
        /\ tokenWarnings' = tokenWarnings + (IF warnsToken(a) THEN 1 ELSE 0)
        /\ evals' = [flip |-> ~evals.flip, verdict |-> shouldRun(a, h)]
        /\ UNCHANGED lastSyncAt
        /\ IF ~shouldRun(a, h)
           THEN /\ timerId' = Null
                /\ timers' = cleared
                /\ timerMs' = 0
                /\ UNCHANGED <<inFlight, signal, tick, run, nextTick>>
           ELSE /\ nextTick <= MaxTicks
                /\ TickEnter(nextTick)
                /\ nextTick' = nextTick + 1
                /\ timerId' = id
                /\ timers' = cleared \cup {id}
                /\ timerMs' = getIntervalMs(m)

\* start(): subscribe to the two signals and reschedule.
Start ==
    /\ ~started
    /\ started' = TRUE
    /\ reschedule(autoSync, homeEnabled, intervalMinutes)
    /\ UNCHANGED <<storeVars, vault, prev, runs, autoSync, homeEnabled, hasToken,
                   intervalMinutes, visible, online>>

\* options.signal fires: an option was written (a is the auto-sync flag and m
\* the interval option after it).
OptionsChanged(a, m) ==
    /\ started
    /\ autoSync' = a
    /\ intervalMinutes' = m
    /\ reschedule(a, homeEnabled, m)
    /\ UNCHANGED <<storeVars, vault, prev, runs, started, homeEnabled, hasToken,
                   visible, online>>

\* extensionManager.signal fires (h is HomeTimelineModule.enabled after it).
ExtensionsChanged(h) ==
    /\ started
    /\ homeEnabled' = h
    /\ reschedule(autoSync, h, intervalMinutes)
    /\ UNCHANGED <<storeVars, vault, prev, runs, started, autoSync, hasToken,
                   intervalMinutes, visible, online>>

\* The interval timer fires its callback.
TimerFire ==
    /\ timers # {}
    /\ nextTick <= MaxTicks
    /\ TickEnter(nextTick)
    /\ nextTick' = nextTick + 1
    /\ UNCHANGED <<storeVars, vault, prev, runs, cfgVars,
                   lastSyncAt, timerId, timers, timerMs, tokenWarningLogged,
                   tokenWarnings, evals>>

VisibilityChanged ==
    /\ visible' = ~visible
    /\ UNCHANGED <<storeVars, syncVars, started, autoSync, homeEnabled, hasToken,
                   intervalMinutes, online, schedVars>>

OnlineChanged ==
    /\ online' = ~online
    /\ UNCHANGED <<storeVars, syncVars, started, autoSync, homeEnabled, hasToken,
                   intervalMinutes, visible, schedVars>>

(***************************************************************************)
(* Sync Engine: steps of one call by caller c                              *)
(***************************************************************************)
\* The caller's locals become rec; a scheduler tick whose engine call has
\* ended goes on to its own completion in the same step.
EngineStep(c, rec) ==
    /\ run' = [run EXCEPT ![c] = rec]
    /\ IF c # Direct /\ rec.pc \in {"returned", "threw"}
       THEN TickSettle(c, rec)
       ELSE UNCHANGED schedVars

NoPrev == [valid |-> FALSE, tweets |-> <<>>, summary |-> ZeroSummary]

\* A direct call of syncHomeTimelineToObsidian, up to its first await.
SyncCall ==
    /\ run[Direct].pc \in {"idle", "returned", "threw"}
    /\ runs < MaxRuns
    /\ runs' = runs + 1
    /\ prev' = IF run[Direct].pc = "returned"
               THEN [valid |-> TRUE, tweets |-> run[Direct].tweets,
                     summary |-> run[Direct].summary]
               ELSE NoPrev
    /\ run' = [run EXCEPT ![Direct] = [IdleRun EXCEPT !.pc = "read"]]
    /\ UNCHANGED <<storeVars, vault, cfgVars, schedVars>>

SyncRead(c) ==
    /\ run[c].pc = "read"
    /\ EngineStep(c, AfterRead(run[c], extGetCapturedTweets(HomeTimelineModule)))
    /\ UNCHANGED <<storeVars, vault, prev, runs, cfgVars>>

SyncGetResponse(c) ==
    /\ run[c].pc = "get"
    /\ \E resp \in GetResponses(vault[BucketKeys(run[c].tweets)[run[c].idx]]) :
         EngineStep(c, AfterGet(run[c], resp))
    /\ UNCHANGED <<storeVars, vault, prev, runs, cfgVars>>

\* The vault stores the body exactly when it answers with a success status.
SyncPutResponse(c) ==
    /\ run[c].pc = "put"
    /\ \E resp \in PutResponses :
         /\ vault' = IF resp.kind = "load" /\ isOkStatus(resp.status)
                     THEN [vault EXCEPT ![BucketKeys(run[c].tweets)[run[c].idx]] =
                               [exists |-> TRUE, text |-> run[c].body]]
                     ELSE vault
         /\ EngineStep(c, AfterPut(run[c], resp))
    /\ UNCHANGED <<storeVars, prev, runs, cfgVars>>

(***************************************************************************)
(* Specifications                                                          *)
(***************************************************************************)
Items(ids, shapes, keys) == [id : ids, shape : shapes, sortIndex : keys]
Singles(items) == {<<x>> : x \in items}

\* Files the vault may hold before the first run.
InitFiles ==
    {NoFile} \cup
    {[exists |-> TRUE, text |-> t] :
        t \in {<<>>, <<1>>, <<JUNK, NL, SP, 2, SP, NL, NOID>>}}

InitStore ==
    /\ tweetsTbl = [id \in TweetIds |-> "none"]
    /\ usersTbl = [id \in TweetIds |-> "none"]
    /\ captures = {}
    /\ adding = NoAdding
    /\ adds = 0
    /\ clearing = NoClearing
    /\ clears = 0
    /\ dbErrors = 0
    /\ now = 0

InitIdle ==
    /\ run = [c \in Callers |-> IdleRun]
    /\ prev = NoPrev
    /\ runs = 0
    /\ started = FALSE
    /\ timerId = Null
    /\ timers = {}
    /\ timerMs = 0
    /\ inFlight = FALSE
    /\ tokenWarningLogged = FALSE
    /\ tokenWarnings = 0
    /\ signal = 0
    /\ tick = [t \in Ticks |-> FreshTick]
    /\ nextTick = 1
    /\ evals = [flip |-> FALSE, verdict |-> FALSE]

InitSync ==
    /\ InitStore
    /\ InitIdle
    /\ vault \in [BucketIds -> InitFiles]
    /\ autoSync = FALSE /\ homeEnabled = TRUE /\ hasToken = TRUE
    /\ intervalMinutes = Null
    /\ visible = TRUE /\ online = TRUE
    /\ lastSyncAt = Null

NextSync ==
    \/ SyncCall
    \/ SyncRead(Direct)
    \/ SyncGetResponse(Direct)
    \/ SyncPutResponse(Direct)
    \/ \E items \in Singles(Items(TweetIds, {"ok"}, {0})) :
         ExtAddTweets(HomeTimelineModule, items)
    \/ UpsertTweetsDone(TRUE)
    \/ UpsertCapturesDone(TRUE, {})

SpecSync == InitSync /\ [][NextSync]_vars

InitSched ==
    /\ InitStore
    /\ InitIdle
    /\ vault = [b \in BucketIds |-> NoFile]
    /\ autoSync \in BOOLEAN /\ homeEnabled \in BOOLEAN /\ hasToken \in BOOLEAN
    /\ intervalMinutes = Null
    /\ visible = TRUE /\ online = TRUE
    /\ lastSyncAt = Null

NextSched ==
    \/ Start
    \/ \E a \in BOOLEAN : OptionsChanged(a, intervalMinutes)
    \/ \E h \in BOOLEAN : ExtensionsChanged(h)
    \/ TimerFire
    \/ VisibilityChanged
    \/ OnlineChanged
    \/ \E t \in Ticks : TickResume(t)
    \/ \E t \in Ticks : SyncRead(t)
    \/ \E t \in Ticks : SyncGetResponse(t)
    \/ \E t \in Ticks : SyncPutResponse(t)
    \/ \E items \in Singles(Items({1}, {"ok", "nocore"}, {0})) :
         ExtAddTweets(HomeTimelineModule, items)
    \/ UpsertTweetsDone(TRUE)
    \/ UpsertCapturesDone(TRUE, {})
    \/ AdvanceTime

SpecSched == InitSched /\ [][NextSched]_vars

\* The interval options tried: unset, small ones, the default, the values
\* around the upper bound, and a large one.
Minutes ==
    {Null, DEFAULT_INTERVAL_MINUTES, HighMinutes}
        \cup (0..LowMinutes)
        \cup ((MAX_INTERVAL_MINUTES - 1)..(MAX_INTERVAL_MINUTES + 1))

\* The scheduler under configuration changes, over an empty capture store.
InitTimer == InitSched

NextTimer ==
    \/ Start
    \/ \E a \in BOOLEAN, m \in Minutes : OptionsChanged(a, m)
    \/ \E h \in BOOLEAN : ExtensionsChanged(h)
    \/ TimerFire
    \/ \E t \in Ticks : TickResume(t)
    \/ \E t \in Ticks : SyncRead(t)

SpecTimer == InitTimer /\ [][NextTimer]_vars

\* The capture producers writing to the store, every transaction committing.
Pairs(items) == {<<x, y>> : x \in items, y \in items}

InitStoreOnly ==
    /\ InitStore
    /\ InitIdle
    /\ vault = [b \in BucketIds |-> NoFile]
    /\ autoSync = FALSE /\ homeEnabled = TRUE /\ hasToken = TRUE
    /\ intervalMinutes = Null
    /\ visible = TRUE /\ online = TRUE
    /\ lastSyncAt = Null

NextStore ==
    \/ \E extName \in Exts :
         \E items \in Singles(Items(TweetIds, {"ok"}, 0..MaxKey))
                        \cup Pairs(Items(1..2, {"ok"}, {0, 1, MaxKey})) :
            ExtAddTweets(extName, items)
    \/ \E extName \in Exts :
         \E items \in Singles(Items({1}, {"ok"}, {0})) : ExtAddUsers(extName, items)
    \/ UpsertTweetsDone(TRUE)
    \/ UpsertUsersDone(TRUE)
    \/ UpsertCapturesDone(TRUE, {})
    \/ AdvanceTime

SpecStore == InitStoreOnly /\ [][NextStore]_vars

\* The store with failing transactions and with extClearCaptures.
NextFaults ==
    \/ \E extName \in Exts :
         \E items \in Singles(Items(TweetIds, {"ok"}, {0}))
                        \cup Pairs(Items(2..3, {"ok", "empty"}, {0})) :
            ExtAddTweets(extName, items)
    \/ \E extName \in Exts :
         \E items \in Singles(Items({1}, {"ok"}, {0})) : ExtAddUsers(extName, items)
    \/ \E ok \in BOOLEAN : UpsertTweetsDone(ok)
    \/ \E ok \in BOOLEAN : UpsertUsersDone(ok)
    \/ \E ok \in BOOLEAN, bad \in SUBSET (1..2) :
         (ok \/ bad = {}) /\ UpsertCapturesDone(ok, bad)
    \/ \E extName \in Exts : ExtClearCaptures(extName)
    \/ ClearRead
    \/ ClearDelete

SpecFaults == InitStoreOnly /\ [][NextFaults]_vars

\* The scheduler with auto-sync configured.
InitSince ==
    /\ InitStore
    /\ InitIdle
    /\ vault = [b \in BucketIds |-> NoFile]
    /\ autoSync = TRUE /\ homeEnabled = TRUE /\ hasToken = TRUE
    /\ intervalMinutes = Null
    /\ visible = TRUE /\ online = TRUE
    /\ lastSyncAt = Null

\* The scheduler over a store that captures two tweets of different days.
NextSince ==
    \/ Start
    \/ TimerFire
    \/ \E t \in Ticks : TickResume(t)
    \/ \E t \in Ticks : SyncRead(t)
    \/ \E t \in Ticks : SyncGetResponse(t)
    \/ \E t \in Ticks : SyncPutResponse(t)
    \/ \E items \in Singles(Items({1, MaxTweet}, {"ok"}, {0})) :
         ExtAddTweets(HomeTimelineModule, items)
    \/ UpsertTweetsDone(TRUE)
    \/ UpsertCapturesDone(TRUE, {})
    \/ AdvanceTime

SpecSince == InitSince /\ [][NextSince]_vars

\* The scheduler with auto-sync configured, over a store that captures one
\* tweet, with or without the fields the projection reads.
NextRecover ==
    \/ Start
    \/ TimerFire
    \/ VisibilityChanged
    \/ \E t \in Ticks : TickResume(t)
    \/ \E t \in Ticks : SyncRead(t)
    \/ \E t \in Ticks : SyncGetResponse(t)
    \/ \E t \in Ticks : SyncPutResponse(t)
    \/ \E items \in Singles(Items({1}, {"ok", "nocore"}, {0})) :
         ExtAddTweets(HomeTimelineModule, items)
    \/ UpsertTweetsDone(TRUE)
    \/ UpsertCapturesDone(TRUE, {})
    \/ AdvanceTime

\* The Sync Engine call terminates: the store answers its read and the vault
\* answers (or fails) every request.
FairSched ==
    /\ InitSince
    /\ [][NextRecover]_vars
    /\ \A t \in Ticks : /\ WF_vars(SyncRead(t))
                         /\ WF_vars(SyncGetResponse(t))
                         /\ WF_vars(SyncPutResponse(t))

(***************************************************************************)
(* Claims on the Sync Engine (SpecSync)                                    *)
(***************************************************************************)
Range(s) == {s[i] : i \in 1..Len(s)}

\* The id stands on a line of its own in the text: some token of the text is
\* the document, and only whitespace separates it from the line breaks (or
\* the ends of the text) around it.
OnOwnLine(text, id) ==
    \E p \in 1..Len(text) :
        /\ text[p] = id
        /\ \E i \in 1..p :
             /\ i = 1 \/ text[i - 1] = NL
             /\ \A k \in i..(p - 1) : text[k] = SP
        /\ \E j \in p..Len(text) :
             /\ j = Len(text) \/ text[j + 1] = NL
             /\ \A k \in (p + 1)..j : text[k] = SP

\* Each document on its own newline-terminated line.
OwnLines(docs) == [i \in 1..(2 * Len(docs)) |-> IF i % 2 = 1 THEN docs[(i + 1) \div 2] ELSE NL]

\* The documents of the sequence whose id is not on a line of the text.
AbsentFrom(text, docs) ==
    LET Absent(id) == ~OnOwnLine(text, id)
    IN  SelectSeq(docs, Absent)

\* The merge the specification describes.
Merged(text, docs) ==
    text \o (IF text # <<>> /\ text[Len(text)] # NL THEN <<NL>> ELSE <<>>)
         \o OwnLines(AbsentFrom(text, docs))

CurrentBucket(c) == BucketKeys(run[c].tweets)[run[c].idx]
GetStep(c) == run[c].pc = "get" /\ run'[c] # run[c]
PutStep(c) == run[c].pc = "put" /\ run'[c] # run[c]
Failed(resp) == resp.kind = "error" \/ (resp.status # 404 /\ ~isOkStatus(resp.status))

\* C3 (as amended): a second direct run over the same records, after a first
\* run without errors, syncs nothing and writes no file; if it records no
\* error either, it skips exactly what the first run synced or skipped.
C3_Idempotent ==
    (/\ run[Direct].pc = "returned"
     /\ prev.valid
     /\ prev.summary.errors = <<>>
     /\ Range(run[Direct].tweets) = Range(prev.tweets))
    => /\ run[Direct].summary.synced = 0
       /\ run[Direct].summary.files = 0
       /\ run[Direct].summary.errors = <<>> =>
            run[Direct].summary.skipped = prev.summary.synced + prev.summary.skipped

C3_Witness ==
    /\ run[Direct].pc = "returned"
    /\ prev.valid
    /\ prev.summary.errors = <<>>
    /\ prev.summary.synced = 2
    /\ Range(run[Direct].tweets) = Range(prev.tweets)
    /\ run[Direct].summary.errors = <<>>
    /\ run[Direct].summary.synced = 0
    /\ run[Direct].summary.skipped = 2

\* C3 as stated: the second run's skipped count equals what the first run
\* synced or skipped, whatever happens in the second run.
C3_Original ==
    (/\ run[Direct].pc = "returned"
     /\ prev.valid
     /\ prev.summary.errors = <<>>
     /\ Range(run[Direct].tweets) = Range(prev.tweets))
    => /\ run[Direct].summary.synced = 0
       /\ run[Direct].summary.files = 0
       /\ run[Direct].summary.skipped = prev.summary.synced + prev.summary.skipped

\* C4: a bucket file changes only by the successful PUT of the bucket being
\* processed, and then holds the content it had, a separating newline if that
\* content is non-empty and lacks a final newline, and every document of the
\* bucket whose id is not on a line of that content, each on its own
\* newline-terminated line; those documents are counted in synced, the others
\* in skipped.  Content '1\n' with documents 1 and 2 becomes '1\n2\n'.
C4_MergeResult ==
    [][/\ \A b \in BucketIds : vault'[b] # vault[b] =>
            LET docs  == InBucket(run[Direct].tweets, b)
                fresh == AbsentFrom(vault[b].text, docs)
            IN  /\ PutStep(Direct)
                /\ CurrentBucket(Direct) = b
                /\ fresh # <<>>
                /\ vault'[b] = [exists |-> TRUE, text |-> Merged(vault[b].text, docs)]
                /\ run'[Direct].summary.synced = run[Direct].summary.synced + Len(fresh)
                /\ run'[Direct].summary.files = run[Direct].summary.files + 1
                /\ (vault[b].text = <<1, NL>> /\ Range(docs) = {1, 2}) =>
                       vault'[b].text = <<1, NL, 2, NL>>
       /\ (GetStep(Direct) /\ ~Failed(run'[Direct].resp)) =>
            LET b     == CurrentBucket(Direct)
                docs  == InBucket(run[Direct].tweets, b)
                fresh == AbsentFrom(vault[b].text, docs)
            IN  /\ run'[Direct].summary.skipped =
                       run[Direct].summary.skipped + (Len(docs) - Len(fresh))
                /\ run'[Direct].summary.synced = run[Direct].summary.synced
      ]_vars

C4_Witness ==
    /\ run[Direct].pc = "returned"
    /\ prev.valid
    /\ prev.tweets = <<1>>
    /\ prev.summary.synced = 1
    /\ Range(run[Direct].tweets) = {1, 2}
    /\ run[Direct].summary.skipped = 1
    /\ run[Direct].summary.synced = 1
    /\ vault[DateKey(1)].text = <<1, NL, 2, NL>>

\* What the engine holds after a GET, apart from the response itself.
Outcome(rec) == [rec EXCEPT !.resp = NoResp]

IsNotFound(resp) == resp.kind = "load" /\ resp.status = 404
IsEmptyFile(resp) == resp.kind = "load" /\ isOkStatus(resp.status) /\ resp.text = <<>>

\* C5: a GET answered 404 and a GET answered with an empty file leave the
\* engine in the same state: no pre-existing id, no error, nothing skipped,
\* and every document of the bucket in the body of the PUT that follows.
C5_NotFoundIsEmpty ==
    /\ [](run[Direct].pc = "get" =>
            \A t \in {<<>>, <<JUNK>>} :
                Outcome(AfterGet(run[Direct], [kind |-> "load", status |-> 404, text |-> t]))
              = Outcome(AfterGet(run[Direct], [kind |-> "load", status |-> 200, text |-> <<>>])))
    /\ [][(GetStep(Direct) /\ (IsNotFound(run'[Direct].resp) \/ IsEmptyFile(run'[Direct].resp))) =>
            LET docs == InBucket(run[Direct].tweets, CurrentBucket(Direct))
            IN  Outcome(run'[Direct]) =
                    [Outcome(run[Direct]) EXCEPT !.pc = "put",
                                                 !.existingContent = <<>>,
                                                 !.newItems = docs,
                                                 !.body = OwnLines(docs)]
         ]_vars

C5_Witness ==
    /\ run[Direct].pc = "put"
    /\ IsNotFound(run[Direct].resp)
    /\ run[Direct].resp.text # <<>>
    /\ Len(run[Direct].newItems) = 2
    /\ run[Direct].body = OwnLines(InBucket(run[Direct].tweets, CurrentBucket(Direct)))
    /\ run[Direct].summary.errors = <<>>

PutFailed(resp) == resp.kind = "error" \/ ~isOkStatus(resp.status)

\* C6: a failed GET or PUT of a bucket appends exactly one error, writes
\* nothing, leaves synced and files as they were, and the run goes on with
\* the next bucket; no other step touches the errors; the engine does not
\* throw in its bucket loop; every bucket of a finished run was asked for.
C6_FailureIsolated ==
    /\ [](run[Direct].pc = "returned" =>
              run[Direct].asked = Range(BucketKeys(run[Direct].tweets)))
    /\ [][(GetStep(Direct) \/ PutStep(Direct)) =>
            LET old  == run[Direct].summary
                new  == run'[Direct].summary
                resp == run'[Direct].resp
                keys == BucketKeys(run[Direct].tweets)
                bad  == IF GetStep(Direct) THEN Failed(resp) ELSE PutFailed(resp)
            IN  /\ run'[Direct].pc # "threw"
                /\ IF bad
                   THEN /\ Len(new.errors) = Len(old.errors) + 1
                        /\ SubSeq(new.errors, 1, Len(old.errors)) = old.errors
                        /\ vault' = vault
                        /\ new.synced = old.synced
                        /\ new.files = old.files
                        /\ IF run[Direct].idx < Len(keys)
                           THEN /\ run'[Direct].pc = "get"
                                /\ run'[Direct].idx = run[Direct].idx + 1
                           ELSE run'[Direct].pc = "returned"
                   ELSE new.errors = old.errors
         ]_vars

C6_Witness ==
    /\ run[Direct].pc = "returned"
    /\ Len(BucketKeys(run[Direct].tweets)) = 2
    /\ Len(run[Direct].summary.errors) = 1
    /\ run[Direct].summary.errors[1][1] = "GET"
    /\ run[Direct].summary.files = 1
    /\ run[Direct].summary.synced = 1
    /\ ~vault[BucketKeys(run[Direct].tweets)[1]].exists
    /\ vault[BucketKeys(run[Direct].tweets)[2]].exists

(***************************************************************************)
(* Claims on the Sync Scheduler (SpecSched)                                *)
(***************************************************************************)
Running == {t \in Ticks : tick[t].pc = "running"}
Settles(t) == tick[t].pc = "running" /\ tick'[t].pc = "done"
Reevaluated == evals' # evals

\* C1: at most one tick is between setting the in-flight flag and clearing
\* it, that is, at most one Sync Engine execution is in flight.
C1_SingleFlight == Cardinality(Running) <= 1

\* C2: a tick that finds the in-flight flag set is skipped and never calls
\* the Sync Engine; the signal counts one start per engine call and one
\* completion per settled tick, nothing for the skipped ones.
C2_TicksInFlightSkipped ==
    LET late    == {t \in Ticks : tick[t].pc # "fresh" /\ tick[t].busy}
        called  == {t \in Ticks : run[t].pc # "idle"}
        settled == {t \in Ticks : tick[t].pc = "done"}
    IN  /\ \A t \in late : tick[t].pc = "skipped" /\ run[t].pc = "idle"
        /\ called \cap late = {}
        /\ signal = Cardinality(called) + Cardinality(settled)

C2_Witness ==
    \E t \in Ticks :
        /\ tick[t].pc = "done"
        /\ \A u \in Ticks \ {t} : tick[u].pc = "skipped" /\ tick[u].busy
        /\ nextTick = 4
        /\ {c \in Ticks : run[c].pc # "idle"} = {t}
        /\ signal = 2

\* C7: a tick whose engine call threw leaves the last-sync offset as it was,
\* clears the in-flight flag and keeps the timer; the offset changes only in
\* the step that settles a tick whose engine call returned.
C7_ThrowKeepsOffset ==
    [][/\ \A t \in Ticks : (Settles(t) /\ run'[t].pc = "threw") =>
              /\ lastSyncAt' = lastSyncAt
              /\ inFlight' = FALSE
              /\ timerId' = timerId /\ timers' = timers
              /\ signal' = signal + 1
       /\ lastSyncAt' # lastSyncAt =>
              \E t \in Ticks : Settles(t) /\ run'[t].pc = "returned" /\ lastSyncAt' = now
      ]_vars

C7_Witness ==
    \E t \in Ticks :
        /\ tick[t].pc = "done"
        /\ run[t].pc = "threw"
        /\ lastSyncAt = Null
        /\ ~inFlight
        /\ timerId # Null /\ timers = {timerId}

\* C8: a tick whose engine call returned a summary with errors leaves the
\* last-sync offset as it was.
C8_ErrorsKeepOffset ==
    [][\A t \in Ticks : (Settles(t) /\ run'[t].summary.errors # <<>>) =>
            lastSyncAt' = lastSyncAt]_vars

\* C9: a tick that finds a run in flight, the page hidden or the host offline
\* is skipped; so is a tick resumed with no capture newer than the offset it
\* read; and the step in which a tick is skipped changes neither the
\* in-flight flag, the signal, the offset, any engine run nor the vault, and
\* changes the timer only if it is a re-evaluation.
C9_SkippedTickAltersNothing ==
    [][\A t \in Ticks :
         /\ (tick[t].pc = "fresh" /\ tick'[t].pc # "fresh"
                /\ (inFlight \/ ~visible \/ ~online)) => tick'[t].pc = "skipped"
         /\ (tick[t].pc = "guard" /\ tick'[t].pc # "guard"
                /\ \A c \in captures : c.extension = HomeTimelineModule =>
                                          c.created_at <= tick[t].since)
              => tick'[t].pc = "skipped"
         /\ (tick[t].pc # "skipped" /\ tick'[t].pc = "skipped") =>
              /\ UNCHANGED <<inFlight, signal, lastSyncAt, run, vault>>
              /\ ~Reevaluated => UNCHANGED <<timerId, timers>>
      ]_vars

C9_Witness ==
    \E t \in Ticks :
        /\ tick[t].pc = "skipped"
        /\ tick[t].why = "no new captures since last sync"
        /\ captures # {}
        /\ lastSyncAt = tick[t].since
        /\ signal = 2
        /\ ~inFlight
        /\ timerId # Null

\* C10: a re-evaluation made while auto-sync is disabled, the credential is
\* missing or the source module is disabled leaves no timer armed and fires
\* no tick; a timer is armed only while the last re-evaluation's verdict was
\* that sync should run.
C10_TimerOnlyWhenShouldRun ==
    /\ []((timerId # Null \/ timers # {}) => evals.verdict)
    /\ [][(Reevaluated /\ (~autoSync' \/ ~hasToken' \/ ~homeEnabled')) =>
              /\ timerId' = Null
              /\ timers' = {}
              /\ ~evals'.verdict
              /\ UNCHANGED <<nextTick, tick, run, inFlight, signal>>
         ]_vars

C10_Witness ==
    /\ started
    /\ autoSync /\ hasToken /\ ~homeEnabled
    /\ nextTick > 1
    /\ timerId = Null
    /\ timers = {}
    /\ ~evals.verdict

(***************************************************************************)
(* Claims on the scheduler's timer and configuration (SpecTimer)           *)
(***************************************************************************)
\* The interval the specification prescribes for the option m, in minutes.
ClampedMinutes(m) ==
    IF m = Null THEN 15
    ELSE IF m < 5 THEN 5
    ELSE IF m > 180 THEN 180
    ELSE m

\* C11: a re-evaluation in which sync should run makes exactly one tick (which
\* passes through the guards: it is skipped if a run is in flight), and leaves
\* exactly one timer armed, the one it created, at the clamped interval; at
\* any time at most one timer is armed, and it is the one the scheduler holds.
C11_OneTimer ==
    /\ [](/\ Cardinality(timers) <= 1
          /\ timers = (IF timerId = Null THEN {} ELSE {timerId}))
    /\ [][(Reevaluated /\ autoSync' /\ hasToken' /\ homeEnabled') =>
            /\ nextTick' = nextTick + 1
            /\ tick'[nextTick].pc \in {"skipped", "guard", "running"}
            /\ inFlight => tick'[nextTick].pc = "skipped"
            /\ \A t \in Ticks \ {nextTick} : tick'[t] = tick[t]
            /\ timerId' # Null
            /\ timers' = {timerId'}
            /\ timerMs' = ClampedMinutes(intervalMinutes') * 60000
         ]_vars

C11_Witness ==
    /\ nextTick = 4
    /\ \A t \in Ticks : tick[t].pc # "fresh"
    /\ intervalMinutes = 2
    /\ timerId # Null
    /\ timers = {timerId}
    /\ timerMs = 300000

\* C12: the delay of the armed timer is max(5, min(180, m)) minutes for the
\* configured interval m, so between 5 and 180 minutes; 2 gives 5, 500 gives
\* 180 and an unset interval gives 15.
C12_IntervalClamped ==
    /\ \A m \in Minutes :
          /\ getIntervalMs(m) = ClampedMinutes(m) * 60000
          /\ getIntervalMs(m) >= 5 * 60000
          /\ getIntervalMs(m) <= 180 * 60000
    /\ timerId # Null =>
          /\ timerMs = ClampedMinutes(intervalMinutes) * 60000
          /\ timerMs >= 5 * 60000 /\ timerMs <= 180 * 60000
          /\ intervalMinutes = 2 => timerMs = 5 * 60000
          /\ intervalMinutes = 500 => timerMs = 180 * 60000
          /\ intervalMinutes = Null => timerMs = 15 * 60000

C12_Witness ==
    /\ timerId # Null
    /\ intervalMinutes = 500
    /\ timerMs = 10800000

\* C19: while the credential is missing the warning is logged at most once,
\* however often the configuration changes, no tick is made, no timer is
\* armed and the Sync Engine is never called; with a credential it is never
\* logged.
C19_SingleTokenWarning ==
    /\ tokenWarnings <= 1
    /\ hasToken => tokenWarnings = 0
    /\ ~hasToken =>
          /\ nextTick = 1
          /\ \A t \in Ticks : tick[t].pc = "fresh" /\ run[t].pc = "idle"
          /\ timerId = Null /\ timers = {}
          /\ ~inFlight /\ signal = 0

C19_Witness ==
    /\ ~hasToken
    /\ autoSync /\ homeEnabled
    /\ intervalMinutes = 2
    /\ ~evals.flip
    /\ tokenWarningLogged
    /\ tokenWarnings = 1

(***************************************************************************)
(* Claims on the Local Capture Store (SpecStore)                           *)
(***************************************************************************)
CapturesOf(tbl, extName) == {c \in tbl : c.extension = extName}
KeysOf(tbl, extName) == {c.data_key : c \in CapturesOf(tbl, extName)}
RowOf(tbl, extName, id) == CHOOSE c \in tbl : c.extension = extName /\ c.data_key = id
CapturesWritten == adding.pc = "captures" /\ adding'.pc = "none"

\* Entry j of the batch comes after entry i in the ordering rule, or ties
\* with it and was submitted later.
Beats(batch, j, i) ==
    LET a == batch[i].sortIndex
        b == batch[j].sortIndex
    IN  \/ a # 0 /\ b # 0 /\ b > a
        \/ a # 0 /\ b = 0
        \/ a = b /\ j > i

\* The entry of the batch for the id that is last in the ordering rule.
LastSorted(batch, id) ==
    LET at == {i \in 1..Len(batch) : batch[i].id = id}
    IN  batch[CHOOSE i \in at : \A j \in at \ {i} : Beats(batch, i, j)]

\* The entry of the batch for the id that was submitted last.
LastSubmitted(batch, id) ==
    LET at == {i \in 1..Len(batch) : batch[i].id = id}
    IN  batch[CHOOSE i \in at : \A j \in at : j <= i]

OnePerKey(tbl) ==
    \A c \in tbl, d \in tbl :
        (c.extension = d.extension /\ c.data_key = d.data_key) => c = d

C14_RetrievalOrder ==
    \A extName \in Exts :
        LET r      == extGetCapturedTweets(extName)
            cap(i) == RowOf(captures, extName, r[i])
            keys   == [i \in 1..Len(r) |-> cap(i).sort_index]
        IN  /\ \A i \in 1..Len(r), j \in 1..Len(r) : i < j =>
                  /\ (keys[i] # 0 /\ keys[j] # 0) => keys[i] <= keys[j]
                  /\ keys[j] # 0 => keys[i] # 0
                  /\ (keys[i] = 0 /\ keys[j] = 0) =>
                         cap(i).created_at >= cap(j).created_at
            /\ {c.sort_index : c \in CapturesOf(captures, extName)} = {3, 1, 2}
                  /\ Cardinality(CapturesOf(captures, extName)) = 3
                  /\ (\A c \in CapturesOf(captures, extName) : tweetsTbl[c.data_key] = "ok")
                => keys = <<1, 2, 3>>

C14_Witness ==
    /\ extGetCapturedTweets(HomeTimelineModule) = <<2, 3, 1>>
    /\ RowOf(captures, HomeTimelineModule, 1).sort_index = 3
    /\ RowOf(captures, HomeTimelineModule, 2).sort_index = 1
    /\ RowOf(captures, HomeTimelineModule, 3).sort_index = 2
    /\ RowOf(captures, HomeTimelineModule, 3).created_at
           > RowOf(captures, HomeTimelineModule, 2).created_at

(***************************************************************************)
(* Claims on the store under failures and clearing (SpecFaults)            *)
(***************************************************************************)
\* C15: the tweets returned for a source are exactly the tweets that a
\* Capture of the source refers to and that are in the table with a
\* non-empty payload, each once; a Capture of a missing or empty tweet adds
\* nothing.
C15_DanglingDropped ==
    \A extName \in Exts :
        LET r == extGetCapturedTweets(extName)
        IN  /\ Range(r) = {id \in KeysOf(captures, extName) : tweetsTbl[id] \in {"ok", "nocore"}}
            /\ Len(r) = Cardinality(Range(r))

C15_Witness ==
    /\ KeysOf(captures, HomeTimelineModule) = {1, 2, 3}
    /\ tweetsTbl[1] = "none"
    /\ tweetsTbl[2] = "empty"
    /\ tweetsTbl[3] = "ok"
    /\ extGetCapturedTweets(HomeTimelineModule) = <<3>>

ClearDeleted == clearing.pc = "delete" /\ clearing'.pc = "done"

\* C16 (as amended): extClearCaptures(S) changes the store only in its delete
\* step, which removes every Capture of S that was in the table when the call
\* read S's Captures, and leaves every tweet, every user, every Capture of
\* another source, and every Capture of S with an id it did not read.
C16_ClearSource ==
    [][/\ (clearing' # clearing) => UNCHANGED <<tweetsTbl, usersTbl>>
       /\ (clearing' # clearing /\ ~ClearDeleted) => UNCHANGED captures
       /\ ClearDeleted =>
            /\ captures' \subseteq captures
            /\ \A c \in captures :
                   c \in captures' <=>
                      (c.extension # clearing.extension \/ CaptureId(c) \notin clearing.ids)
            /\ \A c \in captures : c.extension # clearing.extension => c \in captures'
      ]_vars

C16_Witness ==
    /\ clearing.pc = "done"
    /\ clearing.extension = HomeTimelineModule
    /\ Cardinality(clearing.ids) = 2
    /\ CapturesOf(captures, HomeTimelineModule) = {}
    /\ CapturesOf(captures, OtherModule) # {}
    /\ tweetsTbl[1] = "ok"

\* C16 as stated: when extClearCaptures(S) has deleted, no Capture of S is
\* left, and the tweets, the users and the other sources' Captures are as
\* they were.
C16_Original ==
    [][ClearDeleted =>
            /\ CapturesOf(captures', clearing.extension) = {}
            /\ UNCHANGED <<tweetsTbl, usersTbl>>
            /\ \A c \in captures : c.extension # clearing.extension => c \in captures'
      ]_vars

\* C17: the transaction of a batch either stores the whole batch or, if an
\* entry fails (which is logged), leaves the table as it was.
C17_BatchAtomic ==
    [][/\ (adding.pc = "tweets" /\ adding'.pc # "tweets") =>
              IF dbErrors' = dbErrors
              THEN tweetsTbl' = PutTweets(tweetsTbl, adding.items)
              ELSE tweetsTbl' = tweetsTbl
       /\ (adding.pc = "users" /\ adding'.pc # "users") =>
              IF dbErrors' = dbErrors
              THEN usersTbl' = PutUsers(usersTbl, adding.items)
              ELSE usersTbl' = usersTbl
       /\ CapturesWritten =>
              IF dbErrors' = dbErrors
              THEN captures' = PutCaptures(captures, adding.rows)
              ELSE captures' = captures
      ]_vars

(***************************************************************************)
(* Claims on the offset passed to the Sync Engine (SpecSince)              *)
(***************************************************************************)
ReadStep(c) == run[c].pc = "read" /\ run'[c].pc # "read"

CapturedAfter(id, since) ==
    \E c \in captures :
        c.extension = HomeTimelineModule /\ c.data_key = id /\ c.created_at > since

\* C18: a run started by a tick with a last-sync offset fetches and counts
\* only tweets whose Capture was created after that offset, and neither
\* asks the vault for a bucket of, nor writes, a tweet captured at or before it.
C18_SinceFilter ==
    [][\A t \in Ticks : tick[t].since # Null =>
          /\ ReadStep(t) =>
                /\ \A id \in Range(run'[t].tweets) : CapturedAfter(id, tick[t].since)
                /\ run'[t].summary.total
                       = Cardinality({id \in KeysOf(captures, HomeTimelineModule) :
                                         CapturedAfter(id, tick[t].since)})
          /\ PutStep(t) =>
                \A id \in Range(run[t].newItems) : CapturedAfter(id, tick[t].since)
      ]_vars

(***************************************************************************)
(* Recovery of the scheduler (FairSched)                                   *)
(***************************************************************************)
\* C20: a tick that set the in-flight flag eventually completes, and the flag
\* is eventually clear, whether the engine returned or threw; completing
\* clears the flag and leaves the timer armed as it was; and a tick that
\* then finds no run in flight, the page visible, the host online and either
\* no offset or a Capture newer than the offset starts a new sync.
C20_Recovery ==
    /\ inFlight ~> ~inFlight
    /\ \A t \in Ticks : (tick[t].pc = "running") ~> (tick[t].pc = "done")
    /\ [][\A t \in Ticks :
            /\ Settles(t) =>
                  /\ run'[t].pc \in {"returned", "threw"}
                  /\ inFlight' = FALSE
                  /\ timerId' = timerId /\ timers' = timers /\ timerMs' = timerMs
            /\ (tick[t].pc = "fresh" /\ tick'[t].pc # "fresh"
                    /\ ~inFlight /\ visible /\ online /\ lastSyncAt = Null)
                  => (tick'[t].pc = "running" /\ run'[t].pc = "read" /\ inFlight')
            /\ (tick[t].pc = "guard" /\ tick'[t].pc # "guard"
                    /\ \E c \in captures : /\ c.extension = HomeTimelineModule
                                            /\ c.created_at > tick[t].since)
                  => (tick'[t].pc = "running" /\ run'[t].pc = "read" /\ inFlight')
         ]_vars

C20_Witness ==
    \E t \in Ticks, u \in Ticks :
        /\ t < u
        /\ tick[t].pc = "done" /\ run[t].pc = "threw" /\ tick[t].since = Null
        /\ tick[u].pc = "done" /\ run[u].pc = "returned" /\ tick[u].since = Null
        /\ ~inFlight
        /\ lastSyncAt # Null
        /\ timerId # Null /\ timers = {timerId}

(***************************************************************************)
(* Further claims on the Local Capture Store (SpecStore, SpecFaults)       *)
(***************************************************************************)
\* The batch being written has no sort key and no identifier twice.
PlainBatch ==
    /\ \A i \in 1..Len(adding.given) : adding.given[i].sortIndex = 0
    /\ \A i \in 1..Len(adding.given), j \in 1..Len(adding.given) :
          adding.given[i].id = adding.given[j].id => i = j

PositionIn(seq, x) == CHOOSE i \in 1..Len(seq) : seq[i] = x

\* The Captures of a committed batch without sort keys have the creation
\* timestamps base, base + 1, ... in batch order.
BatchTimestamps ==
    [][(CapturesWritten /\ PlainBatch) =>
          LET g == adding.given
          IN  \E base \in 0..now :
                 \A i \in 1..Len(g) :
                    RowOf(captures', adding.extension, g[i].id).created_at = base + (i - 1)
      ]_vars

\* C21: the Captures of a committed batch without sort keys have strictly
\* increasing creation timestamps in batch order (now + index), and the
\* tweets returned for the source hold the batch's tweets in batch order.
C21_BatchOrder ==
    [][(CapturesWritten /\ PlainBatch /\ adding.type = "tweet") =>
          \A extName \in {adding.extension}, g \in {adding.given} :
              /\ \E base \in 0..now :
                    \A i \in 1..Len(g) :
                       RowOf(captures', extName, g[i].id).created_at = base + (i - 1)
              /\ \A i \in 1..Len(g), j \in 1..Len(g) :
                    i < j => PositionIn(extGetCapturedTweets(extName)', g[i].id)
                                < PositionIn(extGetCapturedTweets(extName)', g[j].id)
      ]_vars

\* C22: every Capture in the store refers to a record that is in its table.
C22_NoDanglingCapture ==
    \A c \in captures :
        IF c.type = "tweet" THEN tweetsTbl[c.data_key] # "none"
        ELSE usersTbl[c.data_key] # "none"

(***************************************************************************)
(* Further claims on the Sync Engine (SpecSync)                            *)
(***************************************************************************)
\* C23: the engine sends a PUT for a bucket only when some document of the
\* bucket has an id that is on no line of the bucket's file; a bucket with
\* nothing new is left unwritten, with synced and files as they were; a run
\* that finds no captured tweet sends no request and returns the zero summary.
C23_WriteOnlyWhenNew ==
    [][/\ GetStep(Direct) =>
            LET b     == CurrentBucket(Direct)
                fresh == AbsentFrom(vault[b].text, InBucket(run[Direct].tweets, b))
            IN  /\ run'[Direct].pc = "put" => fresh # <<>>
                /\ (fresh = <<>> /\ ~Failed(run'[Direct].resp)) =>
                       /\ run'[Direct].pc # "put"
                       /\ vault' = vault
                       /\ run'[Direct].summary.synced = run[Direct].summary.synced
                       /\ run'[Direct].summary.files = run[Direct].summary.files
       /\ PutStep(Direct) =>
            AbsentFrom(vault[CurrentBucket(Direct)].text,
                       InBucket(run[Direct].tweets, CurrentBucket(Direct))) # <<>>
       /\ run'[Direct].pc = "put" => GetStep(Direct) \/ run[Direct].pc = "put"
       /\ (run[Direct].pc = "read" /\ run'[Direct].pc # "read"
              /\ run'[Direct].tweets = <<>>) =>
            /\ run'[Direct].pc = "returned"
            /\ run'[Direct].summary = ZeroSummary
            /\ run'[Direct].asked = {}
            /\ vault' = vault
      ]_vars

C23_Witness ==
    /\ run[Direct].pc = "returned"
    /\ Len(BucketKeys(run[Direct].tweets)) = 2
    /\ run[Direct].summary.errors = <<>>
    /\ run[Direct].summary.skipped = 1
    /\ run[Direct].summary.synced = 1
    /\ run[Direct].summary.files = 1
    /\ prev.valid
    /\ prev.summary = ZeroSummary

(***************************************************************************)
(* Captures and the last-sync offset (SpecSince)                           *)
(***************************************************************************)
\* The tweet is on a line of its bucket's file.
ExportedIn(files, id) == files[DateKey(id)].exists /\ OnOwnLine(files[DateKey(id)].text, id)

\* C24: when a tick completes a run that returned without errors, and no
\* other tick is suspended or running, every tweet whose Capture was stored
\* after the run had fetched its tweets is in the vault or will pass the
\* guard of the next tick: some Capture is newer than the offset just set.
C24_NoCaptureMissed ==
    [][\A t \in Ticks :
          (/\ Settles(t)
           /\ run'[t].pc = "returned"
           /\ run'[t].summary.errors = <<>>
           /\ \A u \in Ticks \ {t} : tick[u].pc \notin {"guard", "running"})
          => \A c \in captures :
                (/\ c.extension = HomeTimelineModule
                 /\ tweetsTbl[c.data_key] = "ok"
                 /\ c.data_key \notin Range(run'[t].tweets))
                => \/ ExportedIn(vault', c.data_key)
                   \/ \E d \in captures : /\ d.extension = HomeTimelineModule
                                           /\ d.created_at > lastSyncAt'
      ]_vars

(***************************************************************************)
(* Vault files and summaries over sequences of runs (SpecSync)             *)
(***************************************************************************)
\* Position p of the text holds a document that is alone on its line.
DocAt(text, p) ==
    /\ text[p] > 0
    /\ \E i \in 1..p :
         /\ i = 1 \/ text[i - 1] = NL
         /\ \A k \in i..(p - 1) : text[k] = SP
    /\ \E j \in p..Len(text) :
         /\ j = Len(text) \/ text[j + 1] = NL
         /\ \A k \in (p + 1)..j : text[k] = SP

NoTwoLinesWithOneId(text) ==
    \A p \in 1..Len(text), q \in 1..Len(text) :
        (DocAt(text, p) /\ DocAt(text, q) /\ text[p] = text[q]) => p = q

IsPrefix(a, b) == Len(a) <= Len(b) /\ SubSeq(b, 1, Len(a)) = a

\* C25: no bucket file ever holds two lines with the same id, and every
\* step leaves each file with its previous content as a prefix of the new
\* one (a file that exists keeps existing).
C25_RemoteDeduplicated ==
    /\ [](\A b \in BucketIds : NoTwoLinesWithOneId(vault[b].text))
    /\ [][\A b \in BucketIds :
            /\ IsPrefix(vault[b].text, vault'[b].text)
            /\ vault[b].exists => vault'[b].exists
         ]_vars

C25_Witness ==
    /\ runs = 2
    /\ run[Direct].pc = "returned"
    /\ Len(run[Direct].summary.errors) = 1
    /\ prev.valid
    /\ Len(prev.summary.errors) = 1
    /\ vault[1].text = <<JUNK, NL, SP, 2, SP, NL, NOID, NL, 1, NL>>
    /\ vault[2].text = <<3, NL>>

\* C26: the summary of a run has total = the number of tweets fetched,
\* synced + skipped <= total, files <= the number of buckets, files + the
\* number of errors <= the number of buckets, and synced + skipped = total
\* when the run returned without errors; synced grows only by the new
\* documents of a bucket whose PUT succeeded.
C26_SummaryAccounting ==
    /\ [](run[Direct].pc \in {"get", "put", "returned"} =>
            (LET sm == run[Direct].summary
                 nb == Len(BucketKeys(run[Direct].tweets))
             IN  /\ sm.total = Len(run[Direct].tweets)
                 /\ sm.synced + sm.skipped <= sm.total
                 /\ sm.files <= nb
                 /\ sm.files + Len(sm.errors) <= nb
                 /\ (run[Direct].pc = "returned" /\ sm.errors = <<>>) =>
                        sm.synced + sm.skipped = sm.total))
    /\ [][/\ PutStep(Direct) =>
                run'[Direct].summary.synced =
                    run[Direct].summary.synced
                      + (IF PutFailed(run'[Direct].resp) THEN 0
                         ELSE Len(AbsentFrom(vault[CurrentBucket(Direct)].text,
                                  InBucket(run[Direct].tweets, CurrentBucket(Direct)))))
          /\ (run[Direct].pc \in {"get", "put"} /\ ~PutStep(Direct)) =>
                run'[Direct].summary.synced = run[Direct].summary.synced
         ]_vars

C26_Witness ==
    /\ run[Direct].pc = "returned"
    /\ run[Direct].summary.total = 2
    /\ run[Direct].summary.synced = 1
    /\ run[Direct].summary.skipped = 0
    /\ run[Direct].summary.files = 1
    /\ Len(run[Direct].summary.errors) = 1
    /\ run[Direct].summary.errors[1][1] = "PUT"

====
